---- MODULE Spec2Model ----
(***************************************************************************)
(* A model of the custom glue code of the notebooks:                       *)
(*   - split_text / correct_text of the grammar-correction notebook,       *)
(*   - the Accuracy metric of the CIFAR10 quantization notebook,           *)
(*   - the WERMetric and LibriSpeechDataLoader of the data2vec             *)
(*     speech-recognition notebook, the CifarDataLoader,                   *)
(*   - the two model load cells of the grammar-correction notebook.        *)
(* Text is a sequence of one-character strings.  A checker score is an     *)
(* integer number of hundredths (0.9 is 90).  A float 1.0 / 0.0 of a match *)
(* list is 1 / 0.  A ratio is a reduced fraction <<num, den>>.             *)
(***************************************************************************)
EXTENDS Integers, Sequences, FiniteSets, TLC

VARIABLES
    \* ---- grammar notebook: correct_text(text, checker, corrector, separator)
    pc,               \* position in correct_text: "start", "loop", "done"
    text,             \* the input text
    separator,        \* the separator argument
    sentence_batches, \* result of split_text(text)
    batch_no,         \* number of batches the for loop has processed
    corrected_text,   \* the list of segments collected so far
    checker_calls,    \* the arguments the checker was called with, in order
    checker_results,  \* results[0] of every checker call, in order
    corrector_calls,  \* [batch, input, output] of every corrector call, in order
    returned,         \* the returned string (<<>> until pc = "done")
    \* ---- Accuracy metric
    top_k,            \* self._top_k
    matches,          \* self._matches
    acc_call,         \* the most recent call on the metric and its outcome
    acc_since,        \* history: the match list of every successful update
                      \* since the last reset (or the construction), in order
    \* ---- WERMetric
    wer_ready,        \* whether self._wer / self._last_result exist (reset ran)
    wer_errors,       \* self._wer.errors  (accumulated edit operations)
    wer_total,        \* self._wer.total   (accumulated reference words)
    wer_forwards,     \* number of forward() calls on self._wer since it was made
    last_result,      \* self._last_result: [some |-> FALSE] for None, or
                      \* [some |-> TRUE, val |-> the list]
    wer_call,         \* the most recent call on the metric and its outcome
    wer_since,        \* history: the (prediction, target) pairs forward() was
                      \* given since the last reset, in order
    \* ---- LibriSpeechDataLoader
    libri_ds,         \* self._ds
    sample_limit,     \* self.sample_limit: [some |-> FALSE] for None
    libri_call,       \* the most recent call on the loader and its outcome
    \* ---- CifarDataLoader
    cifar_ds,         \* self.dataset
    cifar_call,       \* the most recent call on the loader and its outcome
    \* ---- the model load cells of the grammar notebook, per model
    model_dir,        \* the local directory: "absent", "partial", "complete"
    cell_pc,          \* position in the cell: "idle", "load", "convert", "save"
    cell_runs,        \* number of runs of the cell started so far
    cell_log          \* history: [run, op, existed] of every step, in order

grammar_vars == <<pc, text, separator, sentence_batches, batch_no, corrected_text,
                  checker_calls, checker_results, corrector_calls, returned>>
accuracy_vars == <<top_k, matches, acc_call, acc_since>>
wer_vars == <<wer_ready, wer_errors, wer_total, wer_forwards, last_result, wer_call,
              wer_since>>
loader_vars == <<libri_ds, sample_limit, libri_call, cifar_ds, cifar_call>>
cell_vars == <<model_dir, cell_pc, cell_runs, cell_log>>
vars == <<grammar_vars, accuracy_vars, wer_vars, loader_vars, cell_vars>>

\* ------------------------------------------------------------------ bounds
MaxFragments == 4
MaxUpdates == 3
MaxTopK == 2
MaxForwards == 2
MaxSamples == 2
MaxRuns == 3

\* -------------------------------------------------------- general helpers
Max(S) == CHOOSE x \in S : \A y \in S : y <= x

Min(S) == CHOOSE x \in S : \A y \in S : x <= y

\* All sequences over S of length at most n.
SeqsUpTo(S, n) == UNION {[1..k -> S] : k \in 0..n}

\* Concatenation of a sequence of sequences, in order.
RECURSIVE Concat(_)
Concat(ss) == IF ss = <<>> THEN <<>> ELSE Head(ss) \o Concat(Tail(ss))

\* ================================================================ grammar
UpperCase == {"A", "B", "C", "D", "E", "F", "G", "H", "I", "J", "K", "L", "M",
              "N", "O", "P", "Q", "R", "S", "T", "U", "V", "W", "X", "Y", "Z"}

\* Number of consecutive spaces of t starting at position p.
RECURSIVE SpaceRun(_, _)
SpaceRun(t, p) ==
    IF p <= Len(t) /\ t[p] = " " THEN 1 + SpaceRun(t, p + 1) ELSE 0

\* Length of the match of (?<=[^A-Z].[.?]) +(?=[A-Z]) that starts at position
\* p of t, 0 when there is none.  The lookbehind reads the three characters
\* before p; " +" is greedy and backtracks to the longest run of spaces that
\* is followed by an upper-case letter.
RegexMatchLen(t, p) ==
    IF /\ p > 3
       /\ t[p - 3] \notin UpperCase
       /\ t[p - 2] /= "\n"
       /\ t[p - 1] \in {".", "?"}
    THEN LET ks == {k \in 1..SpaceRun(t, p) :
                        p + k <= Len(t) /\ t[p + k] \in UpperCase}
         IN  IF ks = {} THEN 0 ELSE Max(ks)
    ELSE 0

\* re.split: scan left to right; every match closes the piece that started at
\* `from`, the search resumes after the match, the rest is the last piece.
RECURSIVE SplitFrom(_, _, _, _)
SplitFrom(t, p, from, acc) ==
    IF p > Len(t) THEN Append(acc, SubSeq(t, from, Len(t)))
    ELSE LET k == RegexMatchLen(t, p)
         IN  IF k > 0
             THEN SplitFrom(t, p + k, p + k, Append(acc, SubSeq(t, from, p - 1)))
             ELSE SplitFrom(t, p + 1, from, acc)

re_split(t) == SplitFrom(t, 1, 1, <<>>)

\* The condition under which the loop of split_text emits temp_batch, with
\* the plausible variants of it used to test the claims.
EmitBatchLengthOnly(temp_batch, sentence, sentences) ==
    Len(temp_batch) >= 2 /\ Len(temp_batch) <= 3

EmitBatch(temp_batch, sentence, sentences) ==
    \/ Len(temp_batch) >= 2 /\ Len(temp_batch) <= 3
    \/ sentence = sentences[Len(sentences)]

\* The for loop of split_text from sentence i on; what is left in temp_batch
\* when the loop ends is not returned.
RECURSIVE BatchLoop(_, _, _, _)
BatchLoop(sentences, i, temp_batch, batches) ==
    IF i > Len(sentences) THEN batches
    ELSE LET tb == Append(temp_batch, sentences[i])
         IN  IF EmitBatch(tb, sentences[i], sentences)
             THEN BatchLoop(sentences, i + 1, <<>>, Append(batches, tb))
             ELSE BatchLoop(sentences, i + 1, tb, batches)

split_text(t) == BatchLoop(re_split(t), 1, <<>>, <<>>)

\* sep.join(parts)
RECURSIVE join(_, _)
join(sep, parts) ==
    IF parts = <<>> THEN <<>>
    ELSE IF Len(parts) = 1 THEN parts[1]
    ELSE parts[1] \o sep \o join(sep, Tail(parts))

\* results[0]["label"] != "LABEL_1" or (results[0]["label"] == "LABEL_1" and
\* results[0]["score"] < 0.9), with the plausible variants of it.
Threshold == 90

NeedsCorrectionAtThreshold(result) ==
    \/ result.label /= "LABEL_1"
    \/ result.label = "LABEL_1" /\ result.score <= Threshold

NeedsCorrection(result) ==
    \/ result.label /= "LABEL_1"
    \/ result.label = "LABEL_1" /\ result.score < Threshold

\* ---- inputs of correct_text
\* Pieces the input texts are put together from: every single character of
\* a four-letter alphabet (upper case, lower case, full stop, space) and two
\* ready-made sentences, so that texts of three and more sentences are
\* within MaxFragments pieces.
Fragments ==
    { <<"A">>, <<"b">>, <<".">>, <<" ">>,
      <<"A", "b", "b", ".">>, <<" ", "A", ".">> }

RECURSIVE TextsOf(_)
TextsOf(n) ==
    IF n = 0 THEN {<<>>}
    ELSE LET shorter == TextsOf(n - 1)
         IN  shorter \cup {s \o f : s \in shorter, f \in Fragments}

Texts == TextsOf(MaxFragments)

Separators == { <<" ">>, <<"\n">> }

\* What a text-classification pipeline returns as results[0].
CheckerResults == [label : {"LABEL_0", "LABEL_1"}, score : {85, 90, 95}]

\* What a text-generation pipeline may return as generated_text for an input:
\* the input itself or another text.
CorrectorOutputs(raw_text) == {raw_text, <<"O", "k", ".">>}

\* ---- the steps of correct_text
\* sentence_batches = split_text(text); corrected_text = []
SplitStep ==
    /\ pc = "start"
    /\ sentence_batches' = split_text(text)
    /\ pc' = "loop"
    /\ UNCHANGED <<text, separator, batch_no, corrected_text, checker_calls,
                   checker_results, corrector_calls, returned>>
    /\ UNCHANGED <<accuracy_vars, wer_vars, loader_vars, cell_vars>>

\* One iteration of the for loop, the checker answering `result` and the
\* corrector, when it is called, answering `output`.
CorrectBatchTwice(result, output) ==
    /\ pc = "loop"
    /\ batch_no < Len(sentence_batches)
    /\ LET batch == sentence_batches[batch_no + 1]
           raw_text == join(<<" ">>, batch)
       IN  /\ checker_calls' = checker_calls \o <<raw_text, raw_text>>
           /\ checker_results' = Append(checker_results, result)
           /\ IF NeedsCorrection(result)
              THEN /\ corrector_calls' = Append(corrector_calls,
                          [batch |-> batch_no + 1, input |-> raw_text,
                           output |-> output])
                   /\ corrected_text' = Append(corrected_text, output)
              ELSE /\ corrected_text' = Append(corrected_text, raw_text)
                   /\ UNCHANGED corrector_calls
    /\ batch_no' = batch_no + 1
    /\ UNCHANGED <<pc, text, separator, sentence_batches, returned>>
    /\ UNCHANGED <<accuracy_vars, wer_vars, loader_vars, cell_vars>>

CorrectBatch(result, output) ==
    /\ pc = "loop"
    /\ batch_no < Len(sentence_batches)
    /\ LET batch == sentence_batches[batch_no + 1]
           raw_text == join(<<" ">>, batch)
       IN  /\ checker_calls' = Append(checker_calls, raw_text)
           /\ checker_results' = Append(checker_results, result)
           /\ IF NeedsCorrection(result)
              THEN /\ corrector_calls' = Append(corrector_calls,
                          [batch |-> batch_no + 1, input |-> raw_text,
                           output |-> output])
                   /\ corrected_text' = Append(corrected_text, output)
              ELSE /\ corrected_text' = Append(corrected_text, raw_text)
                   /\ UNCHANGED corrector_calls
    /\ batch_no' = batch_no + 1
    /\ UNCHANGED <<pc, text, separator, sentence_batches, returned>>
    /\ UNCHANGED <<accuracy_vars, wer_vars, loader_vars, cell_vars>>

\* corrected_text = separator.join(corrected_text); return corrected_text
ReturnStep ==
    /\ pc = "loop"
    /\ batch_no = Len(sentence_batches)
    /\ returned' = join(separator, corrected_text)
    /\ pc' = "done"
    /\ UNCHANGED <<text, separator, sentence_batches, batch_no, corrected_text,
                   checker_calls, checker_results, corrector_calls>>
    /\ UNCHANGED <<accuracy_vars, wer_vars, loader_vars, cell_vars>>

GrammarIdle ==
    /\ pc = "idle"
    /\ text = <<>>
    /\ separator = <<>>
    /\ sentence_batches = <<>>
    /\ batch_no = 0
    /\ corrected_text = <<>>
    /\ checker_calls = <<>>
    /\ checker_results = <<>>
    /\ corrector_calls = <<>>
    /\ returned = <<>>

InitGrammarCall ==
    /\ pc = "start"
    /\ text \in Texts
    /\ separator \in Separators
    /\ sentence_batches = <<>>
    /\ batch_no = 0
    /\ corrected_text = <<>>
    /\ checker_calls = <<>>
    /\ checker_results = <<>>
    /\ corrector_calls = <<>>
    /\ returned = <<>>
\* =============================================================== Accuracy
ClassIds == 0..2

Scores == 0..2

\* A row of output[0]: the score of every class.
Rows == [ClassIds -> Scores]

\* The row in which every class scores its own id: class 2 first, then 1.
RampRow == [c \in ClassIds |-> c]

\* Numbers of samples in one model output.
BatchSizes == 0..2

\* Annotations: class ids, and one id that is no class of the model.
TargetIds == ClassIds \cup {Max(ClassIds) + 1}

\* update's output argument: a list of no, one or two arrays over `rows`.
OutputsOver(rows) ==
    LET arrays == UNION {[1..n -> rows] : n \in BatchSizes}
    IN  {<<>>} \cup {<<a>> : a \in arrays} \cup {<<a, a>> : a \in arrays}

\* update's target argument: a list, or a dict whose values are the list.
TargetsOver(kinds, ids) ==
    [kind : kinds, values : UNION {[1..n -> ids] : n \in BatchSizes}]

\* The inputs of an update on any model output, and of an update on a model
\* that scores every sample as RampRow, annotated with its lowest or its
\* highest class.
AnyOutputs == OutputsOver(Rows)

AnyTargets == TargetsOver({"list", "dict"}, TargetIds)

RampOutputs == OutputsOver({RampRow})

RampTargets == TargetsOver({"list"}, {Min(ClassIds), Max(ClassIds)})

\* The results np.argsort(row) can have: the class ids in ascending order of
\* score; the order among equal scores is whatever the sort leaves.
ClassOrders ==
    {p \in [1..Cardinality(ClassIds) -> ClassIds] :
        \A a, b \in 1..Cardinality(ClassIds) : a /= b => p[a] /= p[b]}

Argsorts(row) ==
    {p \in ClassOrders : \A a, b \in 1..Len(p) : a < b => row[p[a]] <= row[p[b]]}

\* The results np.argsort(array, axis=1) can have, one per row.
ArgsortChoices(output) ==
    IF Len(output) = 0 THEN {<<>>}
    ELSE {o \in [1..Len(output[1]) -> ClassOrders] :
            \A i \in 1..Len(output[1]) : o[i] \in Argsorts(output[1][i])}

\* sorted[-k:] of one row's argsort: the last k entries, the whole row when
\* k exceeds its length, and (-0 being 0) the whole row when k = 0.
SliceLastFirst(sorted, k) ==
    SubSeq(sorted, 1, Min({k, Len(sorted)}))

SliceLast(sorted, k) ==
    IF k = 0 THEN sorted
    ELSE SubSeq(sorted, Max({1, Len(sorted) - k + 1}), Len(sorted))

\* if isinstance(target, dict): target = list(target.values())
TargetList(target) == target.values

\* match = [float(t in predictions[i]) for i, t in enumerate(target)]
MatchList(order, k, targets) ==
    [i \in 1..Len(targets) |->
        LET predictions == SliceLast(order[i], k)
        IN  IF \E j \in 1..Len(predictions) : predictions[j] = targets[i]
            THEN 1 ELSE 0]

\* Accuracy.update(output, target) on a metric whose _matches is m and whose
\* _top_k is k, `order` being what argsort returned: what it raises ("" when
\* it returns) and the _matches it leaves.
AccuracyUpdateAppendFirst(m, k, output, target, order) ==
    IF Len(output) > 1
    THEN [raised |-> "Exception", matches |-> Append(m, <<>>)]
    ELSE IF Len(output) = 0 \/ Len(TargetList(target)) > Len(output[1])
    THEN [raised |-> "IndexError", matches |-> m]
    ELSE [raised |-> "",
          matches |-> Append(m, MatchList(order, k, TargetList(target)))]

AccuracyUpdate(m, k, output, target, order) ==
    IF Len(output) > 1
    THEN [raised |-> "Exception", matches |-> m]
    ELSE IF Len(output) = 0 \/ Len(TargetList(target)) > Len(output[1])
    THEN [raised |-> "IndexError", matches |-> m]
    ELSE [raised |-> "",
          matches |-> Append(m, MatchList(order, k, TargetList(target)))]

\* self._name
MetricName(k) == <<"accuracy@top", k>>

\* Accuracy.value: {self._name: self._matches[-1]}
ValueFirst(m, k) ==
    IF m = <<>> THEN [raised |-> "IndexError"]
    ELSE [raised |-> "", name |-> MetricName(k), value |-> m[1]]

Value(m, k) ==
    IF m = <<>> THEN [raised |-> "IndexError"]
    ELSE [raised |-> "", name |-> MetricName(k), value |-> m[Len(m)]]

RECURSIVE Gcd(_, _)
Gcd(a, b) == IF b = 0 THEN a ELSE Gcd(b, a % b)

\* The number num / den (den > 0), as a reduced fraction.
Ratio(num, den) ==
    LET g == Gcd(num, den)
    IN  [kind |-> "number", num |-> num \div g, den |-> den \div g]

\* The float nan.
NaN == [kind |-> "nan"]

RECURSIVE SumSeq(_)
SumSeq(q) == IF q = <<>> THEN 0 ELSE Head(q) + SumSeq(Tail(q))

\* np.ravel(m).mean(): the mean of all entries when the lists of m have one
\* length; nan when there is no entry; a list of lists of different lengths
\* is no rectangular array and taking its mean raises.
RavelMean(m) ==
    IF \E i, j \in 1..Len(m) : Len(m[i]) /= Len(m[j]) THEN [kind |-> "raises"]
    ELSE IF Concat(m) = <<>> THEN NaN
    ELSE Ratio(SumSeq(Concat(m)), Len(Concat(m)))

\* Accuracy.avg_value: {self._name: np.ravel(self._matches).mean()}
AvgValue(m, k) ==
    IF RavelMean(m).kind = "raises" THEN [raised |-> "Error"]
    ELSE [raised |-> "", name |-> MetricName(k), value |-> RavelMean(m)]

\* ---- the calls on the metric
\* update(output, target), argsort returning `order`.
AccUpdate(output, target, order) ==
    /\ Len(matches) < MaxUpdates
    /\ LET r == AccuracyUpdate(matches, top_k, output, target, order)
       IN  /\ matches' = r.matches
           /\ acc_call' = [op |-> "update", output |-> output, target |-> target,
                           raised |-> r.raised]
           /\ acc_since' = IF r.raised = ""
                           THEN Append(acc_since, r.matches[Len(r.matches)])
                           ELSE acc_since
    /\ UNCHANGED top_k
    /\ UNCHANGED <<grammar_vars, wer_vars, loader_vars, cell_vars>>

\* reset()
AccReset ==
    /\ matches' = <<>>
    /\ acc_call' = [op |-> "reset"]
    /\ acc_since' = <<>>
    /\ UNCHANGED top_k
    /\ UNCHANGED <<grammar_vars, wer_vars, loader_vars, cell_vars>>

AccuracyIdle ==
    /\ top_k = 0
    /\ matches = <<>>
    /\ acc_call = [op |-> "none"]
    /\ acc_since = <<>>

\* Accuracy(top_k)
InitAccuracy ==
    /\ top_k \in 1..MaxTopK
    /\ matches = <<>>
    /\ acc_call = [op |-> "init"]
    /\ acc_since = <<>>
\* ============================================================== WERMetric
\* A transcription is a sequence of words.
Words == {"a", "b"}

Transcriptions == {<<>>, <<"a">>, <<"b">>, <<"a", "b">>}

\* update's output argument after argmax and batch_decode: a list that is
\* empty or holds, first, the predicted transcriptions of the batch.
WerOutputs ==
    {<<>>} \cup {<<preds>> : preds \in UNION {[1..n -> Transcriptions] : n \in BatchSizes}}

\* update's target argument: the reference transcriptions of the batch.
WerTargets == UNION {[1..n -> Transcriptions] : n \in BatchSizes}

\* Word-level edit distance (insertions, deletions, substitutions).
RECURSIVE EditDistance(_, _)
EditDistance(a, b) ==
    IF a = <<>> THEN Len(b)
    ELSE IF b = <<>> THEN Len(a)
    ELSE IF Head(a) = Head(b) THEN EditDistance(Tail(a), Tail(b))
    ELSE 1 + Min({EditDistance(Tail(a), b), EditDistance(a, Tail(b)),
                  EditDistance(Tail(a), Tail(b))})

\* The float errors / total: nan for 0 / 0, inf for a positive number / 0.
Quotient(errors, total) ==
    IF total = 0
    THEN IF errors = 0 THEN NaN ELSE [kind |-> "inf"]
    ELSE Ratio(errors, total)

\* self._wer.forward([pred], gt) on an accumulator holding (errors, total):
\* the word error rate of this pair alone, and the accumulator with the pair
\* added.
ForwardCumulative(errors, total, pred, gt) ==
    [value |-> Quotient(errors + EditDistance(pred, gt), total + Len(gt)),
     errors |-> errors + EditDistance(pred, gt),
     total |-> total + Len(gt)]

Forward(errors, total, pred, gt) ==
    [value |-> Quotient(EditDistance(pred, gt), Len(gt)),
     errors |-> errors + EditDistance(pred, gt),
     total |-> total + Len(gt)]

\* The for loop of WERMetric.update over zip(predicted_transcription, target)
\* from pair i on: the list res and the accumulator it leaves.
RECURSIVE ForwardLoop(_, _, _, _, _, _)
ForwardLoop(preds, target, i, errors, total, res) ==
    IF i > Min({Len(preds), Len(target)})
    THEN [res |-> res, errors |-> errors, total |-> total]
    ELSE LET f == Forward(errors, total, preds[i], target[i])
         IN  ForwardLoop(preds, target, i + 1, f.errors, f.total,
                         Append(res, f.value))

\* self._wer.compute().item()
Compute(errors, total) == Quotient(errors, total)

\* WERMetric.value
WerValue ==
    IF ~last_result.attr THEN [raised |-> "AttributeError"]
    ELSE IF last_result.some
    THEN [raised |-> "", name |-> "WER", value |-> last_result.val]
    ELSE [raised |-> "", name |-> "WER", value |-> Compute(wer_errors, wer_total)]

\* WERMetric.avg_value
WerAvgValue ==
    IF ~wer_ready THEN [raised |-> "AttributeError"]
    ELSE [raised |-> "", name |-> "WER", value |-> Compute(wer_errors, wer_total)]

\* ---- the calls on the metric
\* reset(): self._wer = WordErrorRate(); self._last_result = None
WerResetKeepsLast ==
    /\ wer_ready' = TRUE
    /\ wer_errors' = 0
    /\ wer_total' = 0
    /\ wer_forwards' = 0
    /\ last_result' = IF last_result.attr THEN last_result
                      ELSE [attr |-> TRUE, some |-> FALSE]
    /\ wer_call' = [op |-> "reset", dropped |-> last_result]
    /\ wer_since' = <<>>
    /\ UNCHANGED <<grammar_vars, accuracy_vars, loader_vars, cell_vars>>

WerResetKeepsCounts ==
    /\ wer_ready' = TRUE
    /\ UNCHANGED <<wer_errors, wer_total, wer_forwards>>
    /\ last_result' = [attr |-> TRUE, some |-> FALSE]
    /\ wer_call' = [op |-> "reset", dropped |-> last_result]
    /\ wer_since' = <<>>
    /\ UNCHANGED <<grammar_vars, accuracy_vars, loader_vars, cell_vars>>

WerReset ==
    /\ wer_ready' = TRUE
    /\ wer_errors' = 0
    /\ wer_total' = 0
    /\ wer_forwards' = 0
    /\ last_result' = [attr |-> TRUE, some |-> FALSE]
    /\ wer_call' = [op |-> "reset", dropped |-> last_result]
    /\ wer_since' = <<>>
    /\ UNCHANGED <<grammar_vars, accuracy_vars, loader_vars, cell_vars>>

\* update(output, target)
WerUpdate(output, target) ==
    /\ wer_forwards < MaxForwards
    /\ IF output = <<>>
       THEN /\ wer_call' = [op |-> "update", output |-> output, target |-> target,
                            raised |-> "IndexError"]
            /\ UNCHANGED <<wer_ready, wer_errors, wer_total, wer_forwards, last_result,
                           wer_since>>
       ELSE IF ~wer_ready /\ Min({Len(output[1]), Len(target)}) > 0
       THEN /\ wer_call' = [op |-> "update", output |-> output, target |-> target,
                            raised |-> "AttributeError"]
            /\ UNCHANGED <<wer_ready, wer_errors, wer_total, wer_forwards, last_result,
                           wer_since>>
       ELSE LET r == ForwardLoop(output[1], target, 1, wer_errors, wer_total, <<>>)
            IN  /\ wer_errors' = r.errors
                /\ wer_total' = r.total
                /\ wer_forwards' = wer_forwards + Len(r.res)
                /\ last_result' = [attr |-> TRUE, some |-> TRUE, val |-> r.res]
                /\ wer_call' = [op |-> "update", output |-> output,
                                target |-> target, raised |-> ""]
                /\ wer_since' = wer_since \o
                       [i \in 1..Len(r.res) |-> <<output[1][i], target[i]>>]
                /\ UNCHANGED wer_ready
    /\ UNCHANGED <<grammar_vars, accuracy_vars, loader_vars, cell_vars>>

\* WERMetric(): __init__ sets the name only.
InitWer ==
    /\ wer_ready = FALSE
    /\ wer_errors = 0
    /\ wer_total = 0
    /\ wer_forwards = 0
    /\ last_result = [attr |-> FALSE]
    /\ wer_call = [op |-> "init"]
    /\ wer_since = <<>>

WerIdle ==
    /\ wer_ready = FALSE
    /\ wer_errors = 0
    /\ wer_total = 0
    /\ wer_forwards = 0
    /\ last_result = [attr |-> FALSE]
    /\ wer_call = [op |-> "none"]
    /\ wer_since = <<>>

\* ======================================================= model load cells
\* The two cells: the grammar checker's and the grammar corrector's.
Models == {"checker", "corrector"}

\* Path.exists() of a model's local directory.
DirExists(m) == model_dir[m] /= "absent"

\* The step `op` of the current run of m's cell, as a history entry.
LogEntry(m, op, existed) == [run |-> cell_runs[m], op |-> op, existed |-> existed]

\* Whether the current run of m's cell found its directory.
Existed(m) == cell_log[m][Len(cell_log[m])].existed

\* A run of the cell starts: the tokenizer is fetched (which may raise and
\* end the run) and <model>_dir.exists() chooses the branch.
CellStart(m, fetched) ==
    /\ cell_pc[m] = "idle"
    /\ cell_runs[m] < MaxRuns
    /\ cell_runs' = [cell_runs EXCEPT ![m] = @ + 1]
    /\ cell_log' = [cell_log EXCEPT ![m] =
           Append(@, [run |-> cell_runs[m] + 1,
                      op |-> IF fetched THEN "exists" ELSE "raised",
                      existed |-> DirExists(m)])]
    /\ cell_pc' = [cell_pc EXCEPT ![m] =
           IF ~fetched THEN "idle" ELSE IF DirExists(m) THEN "load" ELSE "convert"]
    /\ UNCHANGED model_dir
    /\ UNCHANGED <<grammar_vars, accuracy_vars, wer_vars, loader_vars>>

\* from_pretrained(<model>_dir): loads a complete directory and ends the run;
\* raises on a directory a failed save left incomplete.
CellLoad(m) ==
    /\ cell_pc[m] = "load"
    /\ cell_log' = [cell_log EXCEPT ![m] =
           IF model_dir[m] = "complete"
           THEN @ \o <<LogEntry(m, "load", Existed(m)), LogEntry(m, "done", Existed(m))>>
           ELSE Append(@, LogEntry(m, "raised", Existed(m)))]
    /\ cell_pc' = [cell_pc EXCEPT ![m] = "idle"]
    /\ UNCHANGED <<model_dir, cell_runs>>
    /\ UNCHANGED <<grammar_vars, accuracy_vars, wer_vars, loader_vars>>

\* from_pretrained(<model>_id, from_transformers=True): downloads and
\* converts, or raises and ends the run.
CellConvert(m, converted) ==
    /\ cell_pc[m] = "convert"
    /\ cell_log' = [cell_log EXCEPT ![m] =
           Append(@, LogEntry(m, IF converted THEN "convert" ELSE "raised", Existed(m)))]
    /\ cell_pc' = [cell_pc EXCEPT ![m] = IF converted THEN "save" ELSE "idle"]
    /\ UNCHANGED <<model_dir, cell_runs>>
    /\ UNCHANGED <<grammar_vars, accuracy_vars, wer_vars, loader_vars>>

\* save_pretrained(<model>_dir): leaves the directory complete and ends the
\* run, or raises leaving it as `left` ("absent" or "partial").
CellSaveElsewhere(m, left) ==
    /\ cell_pc[m] = "save"
    /\ cell_log' = [cell_log EXCEPT ![m] =
           IF left = "complete"
           THEN @ \o <<LogEntry(m, "save", Existed(m)), LogEntry(m, "done", Existed(m))>>
           ELSE Append(@, LogEntry(m, "raised", Existed(m)))]
    /\ cell_pc' = [cell_pc EXCEPT ![m] = "idle"]
    /\ UNCHANGED <<model_dir, cell_runs>>
    /\ UNCHANGED <<grammar_vars, accuracy_vars, wer_vars, loader_vars>>

CellSave(m, left) ==
    /\ cell_pc[m] = "save"
    /\ model_dir' = [model_dir EXCEPT ![m] = left]
    /\ cell_log' = [cell_log EXCEPT ![m] =
           IF left = "complete"
           THEN @ \o <<LogEntry(m, "save", Existed(m)), LogEntry(m, "done", Existed(m))>>
           ELSE Append(@, LogEntry(m, "raised", Existed(m)))]
    /\ cell_pc' = [cell_pc EXCEPT ![m] = "idle"]
    /\ UNCHANGED cell_runs
    /\ UNCHANGED <<grammar_vars, accuracy_vars, wer_vars, loader_vars>>

CellsIdle ==
    /\ model_dir = [m \in Models |-> "absent"]
    /\ cell_pc = [m \in Models |-> "off"]
    /\ cell_runs = [m \in Models |-> 0]
    /\ cell_log = [m \in Models |-> <<>>]

\* Before the first run: any state of the local directories.
InitCells ==
    /\ model_dir \in [Models -> {"absent", "partial", "complete"}]
    /\ cell_pc = [m \in Models |-> "idle"]
    /\ cell_runs = [m \in Models |-> 0]
    /\ cell_log = [m \in Models |-> <<>>]

\* =========================================================== data loaders
\* A Python value is a record with its type: a tuple or a list with its
\* items, a dict with its one key and value, an array or a tensor with its
\* data.
PyTuple(items) == [type |-> "tuple", items |-> items]

PyList(items) == [type |-> "list", items |-> items]

PyDict(key, value) == [type |-> "dict", key |-> key, value |-> value]

\* np.array(values)
NdArray(values) == [type |-> "ndarray", data |-> values]

\* A torch tensor, and tensor.numpy(): the array of the same data.
Tensor(values) == [type |-> "tensor", data |-> values]

Numpy(tensor) == [type |-> "ndarray", data |-> tensor.data]

\* Indices a loader is asked for: those of the largest dataset and one more.
Indices == 0..MaxSamples

\* ---- LibriSpeechDataLoader
\* The samples of the mapped dataset: input_values and text.
LibriSamples == [input_values : {<<0>>, <<1>>, <<0, 1>>}, text : {"hello", "world"}]

LibriDatasets == SeqsUpTo(LibriSamples, MaxSamples)

\* LibriSpeechDataLoader.__len__: self.sample_limit or len(self._ds)
LibriLength(ds, limit) ==
    IF limit.some /\ limit.val /= 0 THEN limit.val ELSE Len(ds)

\* LibriSpeechDataLoader.__getitem__(index): what it raises ("" when it
\* returns) and the tuple it returns.
LibriGetItem(ds, limit, index) ==
    IF limit.some /\ index >= limit.val THEN [raised |-> "StopIteration"]
    ELSE IF index >= Len(ds) THEN [raised |-> "IndexError"]
    ELSE LET sample == ds[index + 1]
             inputs == PyDict("inputs", NdArray(sample.input_values))
             label == PyList(<<sample.text>>)
         IN  [raised |-> "", result |-> <<inputs, label>>]

\* len(loader)
LibriLenCall ==
    /\ libri_call' = [op |-> "len", result |-> LibriLength(libri_ds, sample_limit)]
    /\ UNCHANGED <<libri_ds, sample_limit, cifar_ds, cifar_call>>
    /\ UNCHANGED <<grammar_vars, accuracy_vars, wer_vars, cell_vars>>

\* loader[index]
LibriGetItemCall(index) ==
    /\ libri_call' = [op |-> "getitem", index |-> index,
                      out |-> LibriGetItem(libri_ds, sample_limit, index)]
    /\ UNCHANGED <<libri_ds, sample_limit, cifar_ds, cifar_call>>
    /\ UNCHANGED <<grammar_vars, accuracy_vars, wer_vars, cell_vars>>

\* LibriSpeechDataLoader(dataset, sample_limit): the constructor stores the
\* dataset and sets self.sample_limit to None whatever it is given.
InitLibri ==
    /\ libri_ds \in LibriDatasets
    /\ sample_limit = [some |-> FALSE]
    /\ libri_call = [op |-> "init"]

\* ---- CifarDataLoader
\* The samples of the CIFAR10 dataset: an image tensor and its label.
CifarSamples == [image : {Tensor(<<0>>), Tensor(<<1>>)}, label : 0..2]

CifarDatasets == SeqsUpTo(CifarSamples, MaxSamples)

\* CifarDataLoader.__len__
CifarLength(ds) == Len(ds)

\* CifarDataLoader.__getitem__(index)
CifarGetItemSwapped(ds, index) ==
    IF index >= Len(ds) THEN [raised |-> "IndexError"]
    ELSE LET image == ds[index + 1].image
             label == ds[index + 1].label
         IN  [raised |-> "",
              result |-> <<PyTuple(<<label, index>>), Numpy(image)>>]

CifarGetItem(ds, index) ==
    IF index >= Len(ds) THEN [raised |-> "IndexError"]
    ELSE LET image == ds[index + 1].image
             label == ds[index + 1].label
         IN  [raised |-> "",
              result |-> <<PyTuple(<<index, label>>), Numpy(image)>>]

\* len(loader)
CifarLenCall ==
    /\ cifar_call' = [op |-> "len", result |-> CifarLength(cifar_ds)]
    /\ UNCHANGED <<cifar_ds, libri_ds, sample_limit, libri_call>>
    /\ UNCHANGED <<grammar_vars, accuracy_vars, wer_vars, cell_vars>>

\* loader[index]
CifarGetItemCall(index) ==
    /\ cifar_call' = [op |-> "getitem", index |-> index,
                      out |-> CifarGetItem(cifar_ds, index)]
    /\ UNCHANGED <<cifar_ds, libri_ds, sample_limit, libri_call>>
    /\ UNCHANGED <<grammar_vars, accuracy_vars, wer_vars, cell_vars>>

\* CifarDataLoader(config): self.dataset = dataset
InitCifar ==
    /\ cifar_ds \in CifarDatasets
    /\ cifar_call = [op |-> "init"]

LoadersIdle ==
    /\ libri_ds = <<>>
    /\ sample_limit = [some |-> FALSE]
    /\ libri_call = [op |-> "none"]
    /\ cifar_ds = <<>>
    /\ cifar_call = [op |-> "none"]

\* ========================================================= specifications
\* One call of correct_text on any text, the pipelines answering anything.
InitGrammar == InitGrammarCall /\ AccuracyIdle /\ WerIdle /\ LoadersIdle /\ CellsIdle

NextGrammar ==
    \/ SplitStep
    \/ /\ batch_no < Len(sentence_batches)
       /\ \E result \in CheckerResults :
            \E output \in CorrectorOutputs(join(<<" ">>, sentence_batches[batch_no + 1])) :
               CorrectBatch(result, output)
    \/ ReturnStep

SpecGrammar == InitGrammar /\ [][NextGrammar]_vars

\* An Accuracy metric under any sequence of update and reset calls.
InitAccuracyMetric == GrammarIdle /\ InitAccuracy /\ WerIdle /\ LoadersIdle /\ CellsIdle

NextAccuracy ==
    \/ \E output \in RampOutputs :
         \E order \in ArgsortChoices(output) :
            \E target \in RampTargets : AccUpdate(output, target, order)
    \/ AccReset

SpecAccuracy == InitAccuracyMetric /\ [][NextAccuracy]_vars

\* The first update of an Accuracy metric, on any model output.
NextTopK ==
    /\ acc_call.op = "init"
    /\ \E output \in AnyOutputs :
         \E order \in ArgsortChoices(output) :
            \E target \in AnyTargets : AccUpdate(output, target, order)

SpecTopK == InitAccuracyMetric /\ [][NextTopK]_vars

\* A WERMetric under any sequence of reset and update calls.
InitWerMetric == GrammarIdle /\ AccuracyIdle /\ InitWer /\ LoadersIdle /\ CellsIdle

NextWer ==
    \/ WerReset
    \/ \E output \in WerOutputs, target \in WerTargets : WerUpdate(output, target)

SpecWER == InitWerMetric /\ [][NextWer]_vars
\* A LibriSpeechDataLoader over any dataset, under any sequence of calls.
InitLibriLoader ==
    /\ GrammarIdle /\ AccuracyIdle /\ WerIdle /\ CellsIdle
    /\ InitLibri
    /\ cifar_ds = <<>>
    /\ cifar_call = [op |-> "none"]

NextLibri ==
    \/ LibriLenCall
    \/ \E index \in Indices : LibriGetItemCall(index)

SpecLibri == InitLibriLoader /\ [][NextLibri]_vars

\* A CifarDataLoader over any dataset, under any sequence of calls.
InitCifarLoader ==
    /\ GrammarIdle /\ AccuracyIdle /\ WerIdle /\ CellsIdle
    /\ InitCifar
    /\ libri_ds = <<>>
    /\ sample_limit = [some |-> FALSE]
    /\ libri_call = [op |-> "none"]

NextCifar ==
    \/ CifarLenCall
    \/ \E index \in Indices : CifarGetItemCall(index)

SpecCifar == InitCifarLoader /\ [][NextCifar]_vars

\* The two load cells, each run any number of times, any step failing.
InitLoadCells == GrammarIdle /\ AccuracyIdle /\ WerIdle /\ LoadersIdle /\ InitCells

NextCells ==
    \E m \in Models :
        \/ \E fetched \in BOOLEAN : CellStart(m, fetched)
        \/ CellLoad(m)
        \/ \E converted \in BOOLEAN : CellConvert(m, converted)
        \/ \E left \in {"absent", "partial", "complete"} : CellSave(m, left)

SpecCells == InitLoadCells /\ [][NextCells]_vars

\* ================================================================= claims
\* parts[1] sep parts[2] sep ... parts[n], written out position by position.
Interleaved(sep, parts) ==
    IF parts = <<>> THEN <<>>
    ELSE Concat([k \in 1..(2 * Len(parts) - 1) |->
                    IF k % 2 = 1 THEN parts[(k + 1) \div 2] ELSE sep])

\* The raw text of batch j: its sentences with one space between them.
RawText(j) == Interleaved(<<" ">>, sentence_batches[j])

\* Whether the corrector has been called for batch j.
Corrected(j) == \E c \in 1..Len(corrector_calls) : corrector_calls[c].batch = j

\* C1: correct_text passes a batch to the corrector when the checker predicts
\* label 1 for it, and returns a batch unchanged, without calling the
\* corrector, when the checker predicts label 0.
C1_CorrectsOnlyFlaggedBatches ==
    \A j \in 1..batch_no :
        /\ checker_results[j].label = "LABEL_1" => Corrected(j)
        /\ checker_results[j].label = "LABEL_0" =>
              ~Corrected(j) /\ corrected_text[j] = RawText(j)

C3_OneSegmentPerBatch ==
    /\ pc /= "start" => sentence_batches = split_text(text)
    /\ batch_no <= Len(sentence_batches)
    /\ checker_calls = [j \in 1..batch_no |-> RawText(j)]
    /\ \A c \in 1..Len(corrector_calls) :
          /\ corrector_calls[c].batch \in 1..batch_no
          /\ corrector_calls[c].input = RawText(corrector_calls[c].batch)
          /\ \A d \in 1..Len(corrector_calls) :
                c < d => corrector_calls[c].batch < corrector_calls[d].batch
    /\ Len(corrected_text) = batch_no
    /\ \A j \in 1..batch_no :
          /\ ~Corrected(j) => corrected_text[j] = RawText(j)
          /\ \A c \in 1..Len(corrector_calls) :
                corrector_calls[c].batch = j =>
                    corrected_text[j] = corrector_calls[c].output
    /\ pc = "done" =>
          /\ batch_no = Len(sentence_batches)
          /\ returned = Interleaved(separator, corrected_text)

C3_Witness ==
    /\ pc = "done"
    /\ Len(sentence_batches) >= 2
    /\ Corrected(1)
    /\ corrected_text[1] /= RawText(1)
    /\ ~Corrected(2)
    /\ separator = <<"\n">>

\* C4: concatenating the batches of split_text in order gives exactly the
\* sentences of the regex split, and no batch is empty.
C4_BatchesKeepEverySentence ==
    pc /= "start" =>
        /\ Concat(sentence_batches) = re_split(text)
        /\ \A j \in 1..Len(sentence_batches) : sentence_batches[j] /= <<>>

C4_Witness ==
    /\ pc /= "start"
    /\ Len(re_split(text)) = 3
    /\ Len(sentence_batches) = 2
    /\ Len(sentence_batches[2]) = 1

\* C5: a batch of split_text with fewer than 2 sentences can only be the last
\* batch of the result.
C5_ShortBatchOnlyLast ==
    pc /= "start" =>
        \A j \in 1..Len(sentence_batches) :
            Len(sentence_batches[j]) < 2 => j = Len(sentence_batches)

\* C6: update raises when the model output has more than one element and then
\* leaves the collected matches, and so value and avg_value, as they were.
C6_MultipleOutputsRaise ==
    [][(acc_call'.op = "update" /\ Len(acc_call'.output) > 1) =>
          /\ acc_call'.raised = "Exception"
          /\ matches' = matches
          /\ Value(matches', top_k') = Value(matches, top_k)
          /\ AvgValue(matches', top_k') = AvgValue(matches, top_k)]_vars

C6_Witness ==
    /\ acc_call.op = "update"
    /\ Len(acc_call.output) > 1
    /\ acc_call.raised = "Exception"
    /\ Len(matches) = 2

\* The number of classes that row scores above (strictly) / at least as high
\* as class t, t itself not counted.
Above(row, t) == Cardinality({c \in ClassIds : row[c] > row[t]})

AtLeast(row, t) == Cardinality({c \in ClassIds \ {t} : row[c] >= row[t]})

\* C7: an update that returns, on a metric with top_k = k >= 1, appends exactly
\* one match list with one entry per target; entry i is 1.0 if target i is
\* among the k highest-scoring classes of output row i and 0.0 otherwise
\* (classes of equal score may rank either way).
C7_TopKMatches ==
    (acc_call.op = "update" /\ acc_call.raised = "") =>
        /\ Len(matches) = 1
        /\ LET ts == acc_call.target.values
               rows == acc_call.output[1]
               m == matches[1]
           IN  /\ Len(m) = Len(ts)
               /\ \A i \in 1..Len(ts) :
                     /\ m[i] \in {0, 1}
                     /\ m[i] = 1 =>
                           ts[i] \in ClassIds /\ Above(rows[i], ts[i]) < top_k
                     /\ m[i] = 0 =>
                           ts[i] \notin ClassIds \/ AtLeast(rows[i], ts[i]) >= top_k

C7_Witness ==
    /\ acc_call.op = "update"
    /\ acc_call.raised = ""
    /\ top_k = 2
    /\ acc_call.target = [kind |-> "dict", values |-> <<1, 1>>]
    /\ acc_call.output[1][1] = [c \in ClassIds |-> c]
    /\ acc_call.output[1][2] = [c \in ClassIds |-> 2 - c]
    /\ matches = << <<1, 1>> >>

\* C8: after at least one successful update since the most recent reset,
\* value is the match list of the most recent successful update.
C8_ValueIsLastUpdate ==
    acc_since /= <<>> =>
        Value(matches, top_k) =
            [raised |-> "", name |-> <<"accuracy@top", top_k>>,
             value |-> acc_since[Len(acc_since)]]

C8_Witness ==
    /\ Len(acc_since) = 2
    /\ acc_since[1] = <<1, 0>>
    /\ acc_since[2] = <<0>>
    /\ acc_call.op = "update"
    /\ acc_call.raised = "Exception"

\* C9: avg_value is (number of matched samples) / (number of samples) over
\* all updates since the most recent reset.
C9_AvgOverAllUpdates ==
    Concat(acc_since) /= <<>> =>
        AvgValue(matches, top_k) =
            [raised |-> "", name |-> <<"accuracy@top", top_k>>,
             value |-> Ratio(SumSeq(Concat(acc_since)), Len(Concat(acc_since)))]

\* The word error rate of every (prediction, target) pair of a call, alone.
PairRates(preds, target) ==
    [i \in 1..Min({Len(preds), Len(target)}) |->
        Quotient(EditDistance(preds[i], target[i]), Len(target[i]))]

\* C10: after an update since the most recent reset, value is the result of
\* that update only: one word error rate per (prediction, target) pair of it,
\* whatever earlier updates accumulated.
C10_ValueIsLastUpdate ==
    (wer_call.op = "update" /\ wer_call.raised = "" /\ wer_ready) =>
        WerValue = [raised |-> "", name |-> "WER",
                    value |-> PairRates(wer_call.output[1], wer_call.target)]

C10_Witness ==
    /\ wer_call.op = "update"
    /\ wer_call.raised = ""
    /\ wer_ready
    /\ Len(last_result.val) = 2
    /\ wer_forwards = 3
    /\ last_result.val[1] /= last_result.val[2]
    /\ \A i \in 1..2 : last_result.val[i] /= Compute(wer_errors, wer_total)
\* The edit operations / the reference words of a list of pairs, summed.
RECURSIVE PairErrors(_)
PairErrors(pairs) ==
    IF pairs = <<>> THEN 0
    ELSE EditDistance(pairs[1][1], pairs[1][2]) + PairErrors(Tail(pairs))

RECURSIVE PairWords(_)
PairWords(pairs) ==
    IF pairs = <<>> THEN 0 ELSE Len(pairs[1][2]) + PairWords(Tail(pairs))

\* C11: avg_value is the word error rate accumulated over the pairs passed to
\* update since the most recent reset, each counted exactly once, and over
\* nothing passed before that reset.
C11_AvgCountsEveryPairOnce ==
    wer_ready =>
        /\ wer_forwards = Len(wer_since)
        /\ WerAvgValue = [raised |-> "", name |-> "WER",
                          value |-> Quotient(PairErrors(wer_since), PairWords(wer_since))]

C11_Witness ==
    /\ wer_ready
    /\ Len(wer_since) = 3
    /\ wer_call.op = "update"
    /\ Len(wer_call.target) = 2
    /\ WerAvgValue.value = [kind |-> "number", num |-> 2, den |-> 3]

\* C12: after reset and before the next update, value is no longer the
\* previous update's result but the value of the fresh, empty accumulator,
\* the same value avg_value reports (nan, where the dropped result was a
\* list).
C12_ResetDropsLastResult ==
    wer_call.op = "reset" =>
        /\ WerValue = [raised |-> "", name |-> "WER", value |-> NaN]
        /\ WerValue = WerAvgValue
        /\ last_result = [attr |-> TRUE, some |-> FALSE]

C12_Witness ==
    /\ wer_call.op = "reset"
    /\ wer_call.dropped.attr
    /\ wer_call.dropped.some
    /\ Len(wer_call.dropped.val) = 2
    /\ WerValue.value = NaN
\* C13: LibriSpeechDataLoader.__getitem__(index) returns `(index,
\* annotation), data`: first the pair of the index and the annotation, then
\* the model input data of the sample at that index.
C13_ReturnsIndexAnnotationThenData ==
    (libri_call.op = "getitem" /\ libri_call.out.raised = "") =>
        LET sample == libri_ds[libri_call.index + 1]
            first == libri_call.out.result[1]
            second == libri_call.out.result[2]
        IN  /\ first.type = "tuple"
            /\ Len(first.items) = 2
            /\ first.items[1] = libri_call.index
            /\ first.items[2] = [type |-> "list", items |-> <<sample.text>>]
            /\ second = [type |-> "dict", key |-> "inputs",
                         value |-> [type |-> "ndarray", data |-> sample.input_values]]

\* C14: CifarDataLoader is a pure adapter: __len__ is the dataset's length,
\* __getitem__(i) for a valid i is ((i, label_i), image_i) with (image_i,
\* label_i) = dataset[i], and no call changes the loader or the dataset.
C14_PureAdapter ==
    [][/\ cifar_ds' = cifar_ds
       /\ cifar_call'.op = "len" => cifar_call'.result = Len(cifar_ds)
       /\ cifar_call'.op = "getitem" =>
             LET i == cifar_call'.index
             IN  /\ cifar_call'.out.raised = "" <=> i < Len(cifar_ds)
                 /\ i < Len(cifar_ds) =>
                       /\ cifar_call'.out.result[1] =
                             [type |-> "tuple", items |-> <<i, cifar_ds[i + 1].label>>]
                       /\ cifar_call'.out.result[2] =
                             [type |-> "ndarray", data |-> cifar_ds[i + 1].image.data]]_vars

C14_Witness ==
    /\ Len(cifar_ds) = 2
    /\ cifar_ds[1].label /= cifar_ds[2].label
    /\ cifar_ds[1].image /= cifar_ds[2].image
    /\ cifar_call.op = "getitem"
    /\ cifar_call.index = 1
    /\ cifar_call.out.raised = ""
    /\ cifar_call.out.result[1].items = <<1, 0>>
\* The history entries of m's cell with operation op.
Steps(m, op) == {i \in 1..Len(cell_log[m]) : cell_log[m][i].op = op}

\* C15: for both models the cell converts and saves only when the local
\* directory does not exist, a run that converts and completes has saved, and
\* once a run of the cell has completed every later run finds the directory,
\* loads from it and neither converts nor saves.
C15_ConvertedOnceThenLoaded ==
    \A m \in Models :
        LET log == cell_log[m]
        IN  /\ \A i \in Steps(m, "convert") \cup Steps(m, "save") : ~log[i].existed
            /\ \A i \in Steps(m, "done") :
                  /\ ~log[i].existed =>
                        \E c \in Steps(m, "convert"), v \in Steps(m, "save") :
                            /\ log[c].run = log[i].run
                            /\ log[v].run = log[i].run
                            /\ c < v
                  /\ \A j \in 1..Len(log) :
                        log[j].run > log[i].run =>
                            /\ log[j].existed
                            /\ log[j].op \in {"exists", "load", "done", "raised"}
                            /\ log[j].op = "raised" => j - 1 \notin Steps(m, "exists")

C15_Witness ==
    \A m \in Models :
        /\ cell_pc[m] = "idle"
        /\ [i \in 1..Len(cell_log[m]) |-> cell_log[m][i].op] =
              <<"exists", "convert", "save", "done", "exists", "load", "done">>
====
